---- MODULE Spec2Model ----
(***************************************************************************)
(* State-machine model of src/src/App.tsx: the React component App, its    *)
(* two history effects, handleImageUpload (with the FileReader callback)   *)
(* and predictSignal (split at its single await).                          *)
(*                                                                         *)
(* JavaScript values are records tagged by kind, JavaScript objects are    *)
(* functions from property names to values, JSON text is a record that is  *)
(* either well formed (field json) or not (field raw).                     *)
(***************************************************************************)
EXTENDS Integers, Sequences, FiniteSets, TLC

\* ------------------------------------------------------------------ bounds
MaxReaders == 1      \* FileReaders that may be pending at once
MaxAccepts == 2      \* accepted Signals per run of Spec / SpecCall
MaxClock   == 1      \* local clock values 0..MaxClock in Spec / SpecCall
CallAccepts == 1     \* calls awaited plus Signals accepted per run of SpecCall
CapAccepts == 21     \* accepted Signals per run of SpecCap (one past the cap)
CapClock   == 2      \* local clock values 0..CapClock in SpecCap

\* ------------------------------------------------------- program constants
HistoryCap == 20

UPLOAD_FIRST   == "Please upload a screenshot first."
ANALYZE_FAILED == "Failed to analyze image. Please try again."

\* JavaScript null for the string-valued states image and error
Null == "<null>"

\* ------------------------------------------------------- JavaScript values
JSNull        == [kind |-> "null"]
JSNumber(n)   == [kind |-> "number", num |-> n]
JSObject(p)   == [kind |-> "object", props |-> p]
JSArray(s)    == [kind |-> "array", items |-> s]

EmptyProps == [k \in {} |-> 0]

\* { ...a, ...b }: own properties of a, overridden and extended by those of b
Merge(a, b) ==
  [k \in (DOMAIN a) \cup (DOMAIN b) |-> IF k \in DOMAIN b THEN b[k] ELSE a[k]]

\* the properties an object spread ...v copies: those of an object, none of
\* null or of a number
Spread(v) == IF v.kind = "object" THEN v.props ELSE EmptyProps

\* JSON text: [json |-> v] is the text of the value v, [raw |-> s] is text
\* that is not JSON
JSONStringify(v) == [json |-> v]
\* JSON.parse(t) as a completion: it throws, or it returns a value
JSONParse(t) ==
  IF "json" \in DOMAIN t THEN [threw |-> FALSE, value |-> t.json]
                         ELSE [threw |-> TRUE, value |-> JSNull]

\* the empty string (also standing for a response without text)
EmptyText == [raw |-> ""]
GarbageText == [raw |-> "Sorry, I can't analyze this chart."]

Truthy(s) == s # Null /\ s # ""

\* new Date().toLocaleTimeString() at clock value c
ToLocaleTimeString(c) ==
  CASE c = 0 -> "10:00:00 AM"
    [] c = 1 -> "10:00:01 AM"
    [] c = 2 -> "10:00:02 AM"
    [] c = 3 -> "10:00:03 AM"
    [] OTHER -> "10:00:04 AM"

\* ------------------------------------------------------------ input domains
Files == {"chartA.png", "chartB.png"}
CapFiles == {"chartA.png"}

\* reader.result after readAsDataURL(f) succeeded
ReadAsDataURL(f) ==
  IF f = "chartA.png" THEN "data:image/png;base64,QUFB"
                      ELSE "data:image/png;base64,QkJC"

\* image.split(",")[1]
Base64Data(img) ==
  IF img = "data:image/png;base64,QUFB" THEN "QUFB" ELSE "QkJC"

BuyProps ==
  [type |-> "BUY", confidence |-> 92, timeframe |-> "5M",
   validity |-> "5 min", reasoning |-> "breakout"]
SellPropsStamped ==
  [type |-> "SELL", confidence |-> 71, timeframe |-> "1M",
   validity |-> "1 min", reasoning |-> "rejection",
   timestamp |-> "1999-12-31T23:59:59Z"]
PartialProps == [type |-> "BUY"]

RequiredFields == {"type", "confidence", "timeframe", "validity", "reasoning"}

\* what the awaited generateContent call can produce: a rejection, or a
\* response whose text is anything at all
Thrown == [thrown |-> TRUE, text |-> EmptyText]
Reply(t) == [thrown |-> FALSE, text |-> t]
NoResponse == [thrown |-> FALSE, text |-> [raw |-> "<no response yet>"]]

Responses ==
  { Thrown,
    Reply(GarbageText),
    Reply(EmptyText),
    Reply(JSONStringify(JSNull)),
    Reply(JSONStringify(JSObject(PartialProps))),
    Reply(JSONStringify(JSObject(BuyProps))),
    Reply(JSONStringify(JSObject(SellPropsStamped))) }

CapResponses ==
  { Reply(GarbageText), Reply(JSONStringify(JSObject(BuyProps))) }

\* a Signal this program stored earlier
StoredSignal ==
  JSObject(Merge(BuyProps, [timestamp |-> "9:59:59 AM"]))

\* localStorage["otc_signal_history"] before the page loads
Absent == [raw |-> "<absent>"]
Blobs ==
  { Absent,
    [raw |-> "[{\"type\":"],
    JSONStringify(JSArray(<<>>)),
    JSONStringify(JSArray(<<StoredSignal>>)),
    JSONStringify(JSArray(<<JSNull>>)),
    JSONStringify(JSNull),
    JSONStringify(JSNumber(5)),
    JSONStringify(JSObject(EmptyProps)) }

\* blobs from which the load effect yields the empty history
EmptyBlobs == { Absent, [raw |-> "[{\"type\":"], JSONStringify(JSArray(<<>>)) }

\* ------------------------------------------------------------------- state
VARIABLES
  phase,          \* "init" before the effects ran, "mounted", or "crashed"
  image,          \* useState image: a data URL or Null
  loading,        \* useState loading
  error,          \* useState error: a message or Null
  currentSignal,  \* useState currentSignal: JSObject(..) or JSNull
  history,        \* useState history: the JavaScript value held
  storage,        \* localStorage["otc_signal_history"]
  readers,        \* files of the FileReaders whose onloadend is pending
  calls,          \* base64Data of the generateContent calls awaited
  response,       \* the response the last resumed predictSignal received
  clock,          \* the local clock
  event,          \* the handler that ran last
  accepted,       \* history variable: every Signal accepted, newest first
  analysed        \* history variable: base64Data of the call that produced
                  \* the Signal accepted last, Null before the first

vars == <<phase, image, loading, error, currentSignal, history, storage,
          readers, calls, response, clock, event, accepted, analysed>>

RemoveAt(s, i) == SubSeq(s, 1, i - 1) \o SubSeq(s, i + 1, Len(s))
Take(s, n) == SubSeq(s, 1, IF Len(s) < n THEN Len(s) ELSE n)

\* ------------------------------------------------------------------ render
\* lines 318-319: history.length > 0 ? history.map(...) : placeholder, with
\* sig.type, sig.timestamp, ... read of every element (lines 324-349).
\* Returns TRUE when rendering the list throws.
RenderThrows(h) ==
  \/ h.kind = "null"
  \/ /\ h.kind = "array"
     /\ \E i \in 1..Len(h.items) : h.items[i].kind = "null"

\* line 141: (prev) => [newSignal, ...prev].slice(0, 20); spreading a value
\* that is not iterable throws
UpdaterThrows(prev) == prev.kind # "array"
\* variant: the slice bound off by one
Updater_SliceOffByOne(newSignal, prev) ==
  JSArray(Take(<<newSignal>> \o prev.items, HistoryCap + 1))
Updater(newSignal, prev) ==
  JSArray(Take(<<newSignal>> \o prev.items, HistoryCap))

\* ------------------------------------------------------------------- Init
InitWith(blobs) ==
  /\ phase = "init"
  /\ image = Null
  /\ loading = FALSE
  /\ error = Null
  /\ currentSignal = JSNull
  /\ history = JSArray(<<>>)
  /\ storage \in blobs
  /\ readers = <<>>
  /\ calls = <<>>
  /\ response = NoResponse
  /\ clock = 0
  /\ event = "construct"
  /\ accepted = <<>>
  /\ analysed = Null

Init == InitWith(Blobs)
InitCap == InitWith(EmptyBlobs)

\* ---------------------------------------------------------------- effects
\* lines 44-53: the value the load effect passes to setHistory, or the
\* initial [] when it passes none
Loaded(blob) ==
  IF blob # Absent /\ blob # EmptyText /\ ~JSONParse(blob).threw
  THEN JSONParse(blob).value
  ELSE JSArray(<<>>)

\* Both effects after the first render, the re-render with the loaded
\* history, and the save effect of that re-render.  The save effect of the
\* first render writes the initial [] (lines 56-58) before the re-render.
Mount ==
  /\ phase = "init"
  /\ history' = Loaded(storage)
  /\ IF RenderThrows(history')
     THEN /\ phase' = "crashed"
          /\ storage' = JSONStringify(history)
     ELSE /\ phase' = "mounted"
          /\ storage' = JSONStringify(history')
  /\ event' = "mount"
  /\ UNCHANGED <<image, loading, error, currentSignal, readers, calls,
                 response, clock, accepted, analysed>>

\* ------------------------------------------------------- handleImageUpload
\* lines 60-71 with a file chosen: a FileReader is started, nothing else
SelectFile(f) ==
  /\ phase = "mounted"
  /\ Len(readers) < MaxReaders
  /\ readers' = Append(readers, f)
  /\ event' = "select"
  /\ UNCHANGED <<phase, image, loading, error, currentSignal, history,
                 storage, calls, response, clock, accepted, analysed>>

\* lines 60-62 with the dialog cancelled: e.target.files is empty
CancelDialog ==
  /\ phase = "mounted"
  /\ event' = "cancel"
  /\ UNCHANGED <<phase, image, loading, error, currentSignal, history,
                 storage, readers, calls, response, clock, accepted, analysed>>

\* variant: onloadend without setCurrentSignal(null)
ReadEnd_KeepsSignal(i, ok) ==
  /\ phase = "mounted"
  /\ i \in 1..Len(readers)
  /\ image' = IF ok THEN ReadAsDataURL(readers[i]) ELSE Null
  /\ error' = Null
  /\ readers' = RemoveAt(readers, i)
  /\ event' = "loadend"
  /\ UNCHANGED <<phase, loading, currentSignal, history, storage, calls,
                 response, clock, accepted, analysed>>

\* lines 64-68: onloadend of pending reader i; reader.result is the data
\* URL when the read succeeded and null when it failed
ReadEnd(i, ok) ==
  /\ phase = "mounted"
  /\ i \in 1..Len(readers)
  /\ image' = IF ok THEN ReadAsDataURL(readers[i]) ELSE Null
  /\ error' = Null
  /\ currentSignal' = JSNull
  /\ readers' = RemoveAt(readers, i)
  /\ event' = "loadend"
  /\ UNCHANGED <<phase, loading, history, storage, calls, response, clock,
                 accepted, analysed>>

\* ----------------------------------------------------------- predictSignal
\* variant: the image check without its return
PredictSignal_NoReturn ==
  /\ loading' = TRUE
  /\ error' = IF ~Truthy(image) THEN UPLOAD_FIRST ELSE Null
  /\ calls' = Append(calls, Base64Data(image))
  /\ event' = "predict"
  /\ UNCHANGED <<phase, image, currentSignal, history, storage, readers,
                 response, clock, accepted, analysed>>

\* lines 73-86: from the call to the await
PredictSignal ==
  /\ IF ~Truthy(image)
     THEN /\ error' = UPLOAD_FIRST
          /\ UNCHANGED <<loading, calls>>
     ELSE /\ loading' = TRUE
          /\ error' = Null
          /\ calls' = Append(calls, Base64Data(image))
  /\ event' = "predict"
  /\ UNCHANGED <<phase, image, currentSignal, history, storage, readers,
                 response, clock, accepted, analysed>>

\* variant: disabled={!image}
ButtonDisabled_IgnoresLoading == ~Truthy(image)

\* line 219: disabled={!image || loading}
ButtonDisabled == ~Truthy(image) \/ loading

\* lines 217-219: a click on the Predict Signal button
ClickPredict(maxAccepts) ==
  /\ phase = "mounted"
  /\ ~ButtonDisabled
  /\ Len(accepted) < maxAccepts
  /\ PredictSignal

\* predictSignal invoked as a function, not through the button
CallPredict ==
  /\ phase = "mounted"
  /\ Len(accepted) + Len(calls) < CallAccepts
  /\ PredictSignal

\* line 134: response.text || "{}"
TextOrEmptyObject(r) ==
  IF r.text = EmptyText THEN JSONStringify(JSObject(EmptyProps)) ELSE r.text

\* variant: a parse failure degrades to the value instead of throwing
ParseThrows_Never(r) == FALSE

\* line 134: JSON.parse(response.text || "{}") throws
ParseThrows(r) == JSONParse(TextOrEmptyObject(r)).threw

\* line 134: the value of result
Result(r) == JSONParse(TextOrEmptyObject(r)).value

\* variant: { timestamp: ..., ...result }
NewSignal_ResponseWins(r, now) ==
  JSObject(Merge([timestamp |-> ToLocaleTimeString(now)],
                 Spread(Result(r))))

\* lines 135-138
NewSignal(r, now) ==
  JSObject(Merge(Spread(Result(r)),
                 [timestamp |-> ToLocaleTimeString(now)]))

\* lines 134-147: awaited call i settles with r at local time now, and
\* predictSignal runs to its end; the re-render and the save effect follow
Settle(i, r, now) ==
  /\ phase = "mounted"
  /\ i \in 1..Len(calls)
  /\ now >= clock
  /\ clock' = now
  /\ calls' = RemoveAt(calls, i)
  /\ response' = r
  /\ loading' = FALSE
  /\ event' = "settle"
  /\ IF r.thrown \/ ParseThrows(r)
     THEN /\ error' = ANALYZE_FAILED
          /\ UNCHANGED <<phase, currentSignal, history, storage, accepted,
                         analysed>>
     ELSE /\ UNCHANGED error
          /\ IF UpdaterThrows(history)
             THEN /\ phase' = "crashed"
                  /\ UNCHANGED <<currentSignal, history, storage, accepted,
                                 analysed>>
             ELSE /\ phase' = "mounted"
                  /\ currentSignal' = NewSignal(r, now)
                  /\ history' = Updater(NewSignal(r, now), history)
                  /\ storage' = JSONStringify(history')
                  /\ accepted' = <<NewSignal(r, now)>> \o accepted
                  /\ analysed' = calls[i]
  /\ UNCHANGED <<image, readers>>

\* ----------------------------------------------------------- specifications
Upload ==
  \/ \E f \in Files : SelectFile(f)
  \/ CancelDialog
  \/ \E i \in 1..MaxReaders, ok \in BOOLEAN : ReadEnd(i, ok)

Settles == \E i \in 1..MaxAccepts, r \in Responses, now \in 0..MaxClock :
             Settle(i, r, now)

\* the application as rendered: predictSignal runs on button clicks only
Next ==
  \/ Mount
  \/ Upload
  \/ ClickPredict(MaxAccepts)
  \/ Settles

Spec == Init /\ [][Next]_vars

\* predictSignal as a unit, callable in every state
NextCall ==
  \/ Mount
  \/ Upload
  \/ CallPredict
  \/ Settles

SpecCall == Init /\ [][NextCall]_vars

\* runs long enough to fill the history past its cap
NextCap ==
  \/ Mount
  \/ \E f \in CapFiles : SelectFile(f)
  \/ \E i \in 1..MaxReaders : ReadEnd(i, TRUE)
  \/ ClickPredict(CapAccepts)
  \/ \E r \in CapResponses, now \in 0..CapClock : Settle(1, r, now)

SpecCap == InitCap /\ [][NextCap]_vars

\* ------------------------------------------------------------------ claims
Min(a, b) == IF a < b THEN a ELSE b

\* a step in which an awaited call settled and predictSignal ran to its end
Settled == Len(calls') < Len(calls)

\* a step in which a Signal was accepted (made current and recorded)
Accepted == Len(accepted') > Len(accepted)

\* C1 (SpecCap): from an empty history, after N accepted Signals the history
\* has length min(N, 20) and lists them newest first
C1_NewestFirst ==
  phase # "init" =>
    /\ history.kind = "array"
    /\ Len(history.items) = Min(Len(accepted), HistoryCap)
    /\ \A i \in 1..Len(history.items) : history.items[i] = accepted[i]

\* C1 (SpecCap): accepting a Signal when the history holds 20 entries drops
\* exactly the oldest and keeps the 19 others in order behind the new one
C1_DropsOldest ==
  (Accepted /\ Len(history.items) = HistoryCap) =>
    /\ Len(history'.items) = HistoryCap
    /\ history'.items[1] = currentSignal'
    /\ \A i \in 1..(HistoryCap - 1) : history'.items[i + 1] = history.items[i]

\* C1: the history is the newest min(N, 20) accepted Signals, newest first,
\* and the 21st acceptance drops exactly the oldest entry
C1_CappedHistory == [](C1_NewestFirst) /\ [][C1_DropsOldest]_vars

C1_Witness ==
  /\ Len(accepted) = HistoryCap + 1
  /\ Len(history.items) = HistoryCap
  /\ history.items[1] # history.items[HistoryCap]
  /\ accepted[HistoryCap + 1] # history.items[HistoryCap]

\* C2: when the call returns text that is not JSON, predictSignal sets the
\* generic error, clears loading, and leaves currentSignal, history and the
\* persisted blob as they were; starting the analysis leaves them alone too
C2_MalformedFails ==
  [][ /\ (Settled /\ ~response'.thrown /\ response'.text = GarbageText) =>
           /\ error' = ANALYZE_FAILED
           /\ loading' = FALSE
           /\ currentSignal' = currentSignal
           /\ history' = history
           /\ storage' = storage
      /\ (Len(calls') > Len(calls)) =>
           /\ currentSignal' = currentSignal
           /\ history' = history
           /\ storage' = storage ]_vars

C2_Witness ==
  /\ event = "settle"
  /\ response = Reply(GarbageText)
  /\ error = ANALYZE_FAILED
  /\ ~loading
  /\ currentSignal # JSNull
  /\ history.kind = "array" /\ history.items # <<>>

\* C3: a Signal lacking any of the five required fields is never made
\* current and never stored in the history
C3_NoPartialSignal ==
  /\ currentSignal.kind = "object" =>
       RequiredFields \subseteq DOMAIN currentSignal.props
  /\ \A i \in 1..Len(accepted) :
       RequiredFields \subseteq DOMAIN accepted[i].props

\* C4 (SpecCall): predictSignal with no image loaded sets the error message,
\* issues no call, leaves loading, currentSignal and history as they were
C4_InputMissing ==
  [][ (event' = "predict" /\ ~Truthy(image)) =>
        /\ error' = UPLOAD_FIRST
        /\ calls' = calls
        /\ loading' = loading
        /\ currentSignal' = currentSignal
        /\ history' = history ]_vars

C4_Witness ==
  /\ event = "predict"
  /\ image = Null
  /\ error = UPLOAD_FIRST
  /\ calls = <<>>
  /\ ~loading

\* C5: at most one call is awaited at a time, loading is true exactly while
\* one is, and a call is issued only with an image present and none awaited
C5_OneInFlight ==
  /\ [](Len(calls) <= 1 /\ (loading <=> Len(calls) = 1))
  /\ [][ (Len(calls') > Len(calls)) =>
           (Truthy(image) /\ ~loading /\ calls = <<>>) ]_vars

C5_Witness ==
  /\ loading
  /\ Len(calls) = 1
  /\ ButtonDisabled
  /\ Truthy(image)
  /\ Len(accepted) < MaxAccepts

\* C6: a Signal on display was produced from the image on display
C6_NoStaleSignal ==
  currentSignal # JSNull =>
    /\ Truthy(image)
    /\ analysed = Base64Data(image)

\* C7: loading the history never crashes the application, and the history
\* is always a sequence of Signals
C7_LoadNeverCrashes ==
  /\ phase # "crashed"
  /\ history.kind = "array"
  /\ \A i \in 1..Len(history.items) : history.items[i].kind = "object"

\* C8: the timestamp of an accepted Signal is the local time of acceptance,
\* also when the response carries a timestamp, and the five response fields
\* are carried over unchanged
C8_LocalTimestamp ==
  [][ Accepted =>
        /\ currentSignal' = accepted'[1]
        /\ history'.items[1] = currentSignal'
        /\ currentSignal'.props.timestamp = ToLocaleTimeString(clock')
        /\ ("json" \in DOMAIN response'.text
              /\ response'.text.json.kind = "object") =>
             \A k \in RequiredFields \cap DOMAIN response'.text.json.props :
               currentSignal'.props[k] = response'.text.json.props[k] ]_vars

C8_Witness ==
  /\ event = "settle"
  /\ response = Reply(JSONStringify(JSObject(SellPropsStamped)))
  /\ currentSignal.kind = "object"
  /\ currentSignal.props.type = "SELL"
  /\ currentSignal.props.timestamp # SellPropsStamped.timestamp
  /\ history.items[1] = currentSignal

\* C9 as stated: selecting a file clears the image, the Signal and the error
\* at once, before the read completes
C9_ClearedOnSelection ==
  [][ (Len(readers') > Len(readers)) =>
        /\ image' = Null
        /\ currentSignal' = JSNull
        /\ error' = Null ]_vars

\* C9 as amended: selecting a file changes none of image, Signal and error;
\* the completion of a read replaces the image by that read's result and
\* clears the Signal and the error in the same step
C9_ClearedOnLoadEnd ==
  [][ /\ (Len(readers') > Len(readers)) =>
           /\ image' = image
           /\ currentSignal' = currentSignal
           /\ error' = error
      /\ (Len(readers') < Len(readers)) =>
           /\ currentSignal' = JSNull
           /\ error' = Null
           /\ \E i \in 1..Len(readers) :
                /\ readers' = RemoveAt(readers, i)
                /\ image' \in {ReadAsDataURL(readers[i]), Null} ]_vars

C9_Witness ==
  /\ event = "select"
  /\ readers # <<>>
  /\ Truthy(image)
  /\ currentSignal # JSNull

\* C10: every settled analysis leaves the application running with loading
\* cleared and exactly one outcome, a new Signal made current and prepended
\* with error null, or the error message with no Signal produced, and issues
\* no further call
C10_OneOutcome ==
  [][ Settled =>
        /\ phase' = "mounted"
        /\ loading' = FALSE
        /\ Len(calls') = Len(calls) - 1
        /\ \/ /\ Accepted
              /\ error' = Null
              /\ currentSignal' = accepted'[1]
              /\ history'.items = Take(<<currentSignal'>> \o history.items,
                                       HistoryCap)
           \/ /\ ~Accepted
              /\ error' = ANALYZE_FAILED
              /\ currentSignal' = currentSignal
              /\ history' = history ]_vars

====
